---- MODULE Spec2Model ----
(***************************************************************************)
(* Service lifecycle manager of the ollama-mcp-bridge: BaseServiceManager, *)
(* its Unix and Windows strategies, the health wait and the error classes. *)
(* One manager instance, one caller that awaits every call.  Every await   *)
(* of the TypeScript source is a step boundary; the synchronous code       *)
(* between two awaits is one action.                                       *)
(* Time is counted in units of 500 ms.                                     *)
(***************************************************************************)
EXTENDS Integers, Sequences, FiniteSets, TLC

\* ------------------------------------------------------------------ bounds
\* Longest time one health probe may take, in time units.
MaxProbeLatency == 1

\* ------------------------------------------------------- program constants
\* windows/service.ts:94  while (attempts < 5)
StopPollLimit == 5

\* The configurations the manager is constructed with (timeout and interval
\* in time units): the integration test's {5000, 500} and a configuration
\* that also supplies maxAttempts.
Configs ==
  { [timeout |-> 10, interval |-> 1, hasMaxAttempts |-> FALSE, maxAttempts |-> 0],
    [timeout |-> 10, interval |-> 2, hasMaxAttempts |-> TRUE,  maxAttempts |-> 3] }

\* The HealthCheckConfig values waitForHealth() of health.ts is called with
\* directly: {5000, 1000, maxAttempts 3}, the same with maxAttempts 0, a
\* budget that outlasts the timeout, one without maxAttempts, and one whose
\* interval {1000} is longer than its timeout {500}.
HealthCheckConfigs ==
  { [timeout |-> 10, interval |-> 2, hasMaxAttempts |-> TRUE,  maxAttempts |-> 3],
    [timeout |-> 10, interval |-> 2, hasMaxAttempts |-> TRUE,  maxAttempts |-> 0],
    [timeout |-> 4,  interval |-> 2, hasMaxAttempts |-> TRUE,  maxAttempts |-> 3],
    [timeout |-> 4,  interval |-> 2, hasMaxAttempts |-> FALSE, maxAttempts |-> 0],
    [timeout |-> 1,  interval |-> 2, hasMaxAttempts |-> FALSE, maxAttempts |-> 0] }

Platforms == {"unix", "windows"}

Undefined == "undefined"

Min(a, b) == IF a < b THEN a ELSE b

\* ------------------------------------------------------------ error classes
ErrorCode ==
  [ ServiceError     |-> "SERVICE_ERROR",
    ProcessError     |-> "PROCESS_ERROR",
    ConfigError      |-> "CONFIG_ERROR",
    TimeoutError     |-> "TIMEOUT_ERROR",
    HealthCheckError |-> "HEALTH_CHECK_ERROR",
    PlatformError    |-> "PLATFORM_ERROR" ]

\* class C extends Extends[C]
Extends ==
  [ Error            |-> "",
    BridgeError      |-> "Error",
    ServiceError     |-> "BridgeError",
    ProcessError     |-> "BridgeError",
    TimeoutError     |-> "BridgeError",
    HealthCheckError |-> "BridgeError",
    PlatformError    |-> "BridgeError" ]

\* e instanceof cls
InstanceOf(e, cls) ==
  LET c1 == e.name
      c2 == IF c1 \in DOMAIN Extends THEN Extends[c1] ELSE ""
      c3 == IF c2 \in DOMAIN Extends THEN Extends[c2] ELSE ""
  IN  cls \in ({c1, c2, c3} \ {""})

\* Every error value has the same fields; a field a class does not have is
\* "" / 0 / <<>>.  cause and serviceStatus hold zero or one value.
NoError ==
  [ name |-> "", code |-> "", message |-> "", processName |-> "",
    operation |-> "", platform |-> "", timeoutMs |-> 0, attempts |-> 0,
    serviceStatus |-> <<>>, cause |-> <<>> ]

\* a plain Error rejected by exec / execAsync
RawError(message) ==
  [NoError EXCEPT !.name = "Error", !.message = message]

ProcessError(message, processName, operation, cause) ==
  [NoError EXCEPT !.name = "ProcessError", !.code = ErrorCode.ProcessError,
                  !.message = message, !.processName = processName,
                  !.operation = operation, !.cause = <<cause>>]

TimeoutError(message, operation, timeoutMs) ==
  [NoError EXCEPT !.name = "TimeoutError", !.code = ErrorCode.TimeoutError,
                  !.message = message, !.operation = operation,
                  !.timeoutMs = timeoutMs]

HealthCheckError(message, serviceStatus, attempts) ==
  [NoError EXCEPT !.name = "HealthCheckError", !.code = ErrorCode.HealthCheckError,
                  !.message = message, !.serviceStatus = <<serviceStatus>>,
                  !.attempts = attempts]

PlatformError(message, platform, operation, cause) ==
  [NoError EXCEPT !.name = "PlatformError", !.code = ErrorCode.PlatformError,
                  !.message = message, !.platform = platform,
                  !.operation = operation, !.cause = <<cause>>]

\* ------------------------------------------------------------------- state
VARIABLES
  platform,      \* strategy chosen by the factory
  config,        \* ServiceConfig.healthCheck
  svc,           \* what a health probe of the service answers right now
  status,        \* BaseServiceManager.status
  pc,            \* position of the call in flight ("idle": none)
  attempts,      \* loop counter of the health wait / of the post-stop poll
  elapsed,       \* Date.now() - start inside waitForHealth
  calls,         \* ProcessManager methods invoked since the call began
  probes,        \* number of probes completed since the call began
  lastFetch,     \* how the fetch of the last probe of the call ended
  firstProbe,    \* result of the first probe of the call
  postStopProbe, \* result of the last probe after stopProcess was invoked
  stopIssued,    \* stopProcess has been invoked in this call
  gracefulFailed,\* the graceful stop command of this call was refused
  waitOutcome,   \* how the health wait of this call ended
  caught,        \* the error that reached the outer catch of the call
  result,        \* the call in flight or last completed, and its outcome
  prev,          \* the call completed before it
  returned,      \* value returned by the last getStatus()
  svcAtCall,     \* svc when the call began
  svcChanged,    \* svc has changed since the call began
  held,          \* the object the caller got from its last getStatus()
  waitCfg,       \* the HealthCheckConfig waitForHealth() of health.ts is given
  strayGone,     \* the stray process of this startService was gone when the stop command ran
  spawned,       \* how the spawn of the command of this call went
  trace,         \* the steps of the call so far, each with the answer it got
  osPlatform,    \* platform argument of the factory call just made
  processPlatform, \* process.platform
  memo,          \* the first call made on an earlier manager, and its trace
  mainPc,        \* main.ts: where the command loop of main() is
  isClosing,     \* main.ts: isClosing
  exited,        \* main.ts: process.exit() has been called
  invokePc,      \* LLMClient.invokeWithPrompt: the await it is at ("idle": no call)
  closePc,       \* LLMClient.close: the await it is at ("idle": no call)
  messages,      \* LLMClient.messages
  prompt,        \* prompt argument of the invokeWithPrompt call
  requests,      \* chat requests sent to the server by the invokeWithPrompt call
  startResult,   \* how the startService() of the invokeWithPrompt call settled
  thrown,        \* the error the invokeWithPrompt call rejected with
  starts,        \* startService() calls in flight on the client's manager
  stops,         \* stopService() calls in flight on the client's manager
  stopResult,    \* how the stopService() of the close() call settled
  closeResult,   \* how the LLMClient.close() call settled
  closes,        \* bridge.close() calls made by shutdown()
  draftCfg,      \* timeout and interval the two drafts of the health wait are run with
  probeAnswers,  \* what the successive probes of a run of a draft answer
  counting,      \* the run of waitForHealth() of health.ts
  looping        \* the run of waitForHealth() of the earlier BaseServiceManager

vars == << platform, config, svc, status, pc, attempts, elapsed, calls,
           probes, lastFetch, firstProbe, postStopProbe, stopIssued, gracefulFailed, waitOutcome,
           caught, result, prev, returned, svcAtCall, svcChanged, held, waitCfg,
           strayGone, spawned, trace, osPlatform, processPlatform, memo,
           mainPc, isClosing, exited, invokePc, closePc, messages, prompt,
           requests, startResult, thrown, starts, stops, stopResult, closeResult,
             closes, draftCfg, probeAnswers, counting, looping >>

\* state of the program around the manager: main.ts and LLMClient
appVars == << mainPc, isClosing, exited, invokePc, closePc, messages, prompt,
             requests, startResult, thrown, starts, stops, stopResult, closeResult,
             closes >>

\* the two drafts of the health wait, run side by side
draftVars == << draftCfg, probeAnswers, counting, looping >>

\* state outside the manager, which no operation of the manager touches
otherVars == << processPlatform, memo, appVars, draftVars >>

NoRun == [pc |-> "none", attempts |-> 0, elapsed |-> 0, probes |-> 0, outcome |-> "none"]

\* no draft is being run
DraftsNotRun ==
  /\ draftCfg = [timeout |-> 0, interval |-> 0, hasMaxAttempts |-> FALSE, maxAttempts |-> 0]
  /\ probeAnswers = << >>
  /\ counting = NoRun
  /\ looping = NoRun

\* main() has reached its command loop with a new LLMClient
AppStarted ==
  /\ mainPc = "question"
  /\ isClosing = FALSE
  /\ exited = FALSE
  /\ invokePc = "idle"
  /\ closePc = "idle"
  /\ messages = << >>
  /\ prompt = ""
  /\ requests = 0
  /\ startResult = "none"
  /\ thrown = ""
  /\ starts = 0
  /\ stops = 0
  /\ stopResult = "none"
  /\ closeResult = "none"
  /\ closes = 0

NoMemo == [taken |-> FALSE, platform |-> "", op |-> "", trace |-> << >>, outcome |-> ""]

\* one step of a call and the answer it got; a write of the stored state is
\* the step "state" with the state written
Step(kind, input) == [step |-> kind, input |-> input]

NoCalls ==
  [findProcess |-> 0, startProcess |-> 0, stopProcess |-> 0, forceStopProcess |-> 0]

NoResult == [op |-> "none", outcome |-> "none", err |-> NoError]

B2S(b) == IF b THEN "true" ELSE "false"

\* ------------------------------------------------------ BaseServiceManager
\* protected status = { running: false, state: 'stopped' }
InitialStatus ==
  [running |-> FALSE, state |-> "stopped", pid |-> 0, lastError |-> Undefined]

\* this.status = { ...this.status, ...update }
updateStatus(st, update) ==
  [f \in DOMAIN st |-> IF f \in DOMAIN update THEN update[f] ELSE st[f]]

\* a getStatus() that refreshes running and forgets the state
getStatus_KeepsState(st, h) ==
  [st EXCEPT !.running = h]

\* a getStatus() that leaves a state of transition as it is stored
getStatus_KeepsTransition(st, h) ==
  IF st.state \in {"starting", "stopping"}
  THEN [st EXCEPT !.running = h]
  ELSE [st EXCEPT !.running = h, !.state = IF h THEN "running" ELSE "stopped"]

\* the two assignments of getStatus(), h being the result of checkHealth()
getStatus(st, h) ==
  [st EXCEPT !.running = h, !.state = IF h THEN "running" ELSE "stopped"]

\* Objects.  held.id tells which object the caller holds: "none", "copy" (an
\* object of its own), "status" (the very object this.status refers to) or
\* "old" (an object this.status referred to before it was reassigned).  While
\* held.id = "status" the object's fields are those of status.
NoHeld == [id |-> "none", value |-> InitialStatus]

\* a getStatus() that ends with  return this.status
StatusCopy_SameObject(obj) == obj

\* return { ...this.status }: the object returned is a new one
StatusCopy(obj) == "copy"

\* this.status = {...} in updateStatus makes this.status refer to a new
\* object; an object held by the caller keeps the fields it had
Detached(hd, st) ==
  IF hd.id = "status" THEN [id |-> "old", value |-> st] ELSE hd

Tampered == "tampered"

\* what the caller writes into the object it holds
CallerChange(v) ==
  [v EXCEPT !.running = TRUE, !.state = "error", !.lastError = Tampered]

\* process name the strategy passes to its ProcessManager
ProcessName(plat) == IF plat = "unix" THEN "ollama" ELSE "ollama.exe"



\* ----------------------------------------------------------- ProcessManager
\* Outcome of one ProcessManager call: whether it threw, the error it threw,
\* and the ProcessManager methods it invoked on itself.

\* UnixProcessManager.stopProcess: findProcess, then kill <pid> when found
UnixStopProcess(found, killOk) ==
  [ threw |-> found /\ ~killOk,
    gracefulFailed |-> found /\ ~killOk,
    error |-> RawError("Command failed: kill"),
    findProcess |-> 1,
    forceStopProcess |-> 0 ]

\* WindowsProcessManager.stopProcess: taskkill /IM; on failure its catch
\* calls this.forceStopProcess(name), whose rejection escapes
WindowsStopProcess(gracefulOk, forceOk) ==
  [ threw |-> ~gracefulOk /\ ~forceOk,
    gracefulFailed |-> ~gracefulOk,
    error |-> RawError("Command failed: taskkill /F /IM"),
    findProcess |-> 0,
    forceStopProcess |-> IF gracefulOk THEN 0 ELSE 1 ]

\* processManager.stopProcess(name) of the strategy; a, b are the outcomes of
\* the two operating-system commands the call may issue
StopProcessOutcome(plat, a, b) ==
  IF plat = "unix" THEN UnixStopProcess(a, b) ELSE WindowsStopProcess(a, b)

\* WindowsProcessManager.forceStopProcess: taskkill /F /IM
WindowsForceStopProcess(ok) ==
  [ threw |-> ~ok, error |-> RawError("Command failed: taskkill /F /IM") ]

\* What the stop commands answer once the process no longer exists.  Unix:
\* findProcess misses it (found = FALSE), or it exits between findProcess and
\* `kill <pid>`, which then fails.  Windows: taskkill /IM and taskkill /F /IM
\* both fail when no process matches.
AnswersWhenGone(plat, a, b) ==
  IF plat = "unix" THEN ~(a /\ b) ELSE (~a /\ ~b)

\* How a spawn by exec(command, options) can go
SpawnOutcomes == {"spawned", "refused", "threw"}

\* ProcessManager.startProcess (the same code on both platforms):
\* const process = exec(command, options); ...; process.unref()
startProcess(out) ==
  [ threw |-> out = "threw", error |-> RawError("exec failed") ]

AddStopCalls(c, o) ==
  [c EXCEPT !.stopProcess = @ + 1,
            !.findProcess = @ + o.findProcess,
            !.forceStopProcess = @ + o.forceStopProcess]

\* ------------------------------------------------------------ outer catch
CatchMessage(plat, operation) ==
  IF plat = "unix"
  THEN (IF operation = "start" THEN "Failed to start service on Unix platform"
                               ELSE "Failed to stop service on Unix platform")
  ELSE (IF operation = "start" THEN "Failed to start service on Windows platform"
                               ELSE "Failed to stop service on Windows platform")

\* an outer catch block without the instanceof test: it wraps whatever it catches
PlatformCatch_AlwaysWrap(plat, operation, error) ==
  PlatformError(CatchMessage(plat, operation), plat, operation, error)

\* the outer catch block of startService / stopService of a strategy
PlatformCatch(plat, operation, error) ==
  IF InstanceOf(error, "ProcessError") \/ InstanceOf(error, "ServiceError")
  THEN error
  ELSE PlatformError(CatchMessage(plat, operation), plat, operation, error)

\* the error that leaves the public operation o when e is thrown inside it
Escapes(plat, o, e) ==
  CASE o = "startService" -> PlatformCatch(plat, "start", e)
    [] o = "stopService"  -> PlatformCatch(plat, "stop", e)
    [] OTHER              -> e

\* ------------------------------------------------------------ health probe
\* How the fetch of http://127.0.0.1:{port}/api/tags can end: a response with
\* ok true, a response with ok false, a rejected promise (transport failure).
FetchOutcomes == {"ok", "not_ok", "rejected"}

\* a check() that returns true for every response, ok or not
check_IgnoresOk(fetch) ==
  fetch # "rejected"

\* ServiceHealthChecker.check:
\*   try { const response = await fetch(...); return response.ok }
\*   catch (error) { return false }
check(fetch) ==
  IF fetch = "rejected" THEN FALSE ELSE fetch = "ok"

\* ------------------------------------------------------------- health wait
\* the config BaseServiceManager.waitForHealth hands to waitForHealth():
\* timeout and interval only
ManagerWaitConfig(cfg) ==
  [timeout |-> cfg.timeout, interval |-> cfg.interval,
   hasMaxAttempts |-> FALSE, maxAttempts |-> 0]

\* a budget one attempt larger than the one the code computes
WaitMaxAttempts_OffByOne(cfg) ==
  (IF cfg.hasMaxAttempts /\ cfg.maxAttempts # 0
   THEN cfg.maxAttempts
   ELSE cfg.timeout \div cfg.interval) + 1

\* config.maxAttempts || Math.floor(config.timeout / config.interval)
WaitMaxAttempts(cfg) ==
  IF cfg.hasMaxAttempts /\ cfg.maxAttempts # 0
  THEN cfg.maxAttempts
  ELSE cfg.timeout \div cfg.interval

\* first position of waitForHealth(): the loop test with attempts = 0
WaitEntry(cfg) ==
  IF 0 < WaitMaxAttempts(cfg) THEN "wait_check" ELSE "wait_exhausted"

\* ------------------------------------------------------------------- start
\* the manager as constructed: status {running: false, state: 'stopped'}
Init ==
  /\ platform \in Platforms
  /\ config \in Configs
  /\ svc \in BOOLEAN
  /\ status = InitialStatus
  /\ pc = "idle"
  /\ attempts = 0
  /\ elapsed = 0
  /\ calls = NoCalls
  /\ probes = 0
  /\ lastFetch = "none"
  /\ firstProbe = "none"
  /\ postStopProbe = "none"
  /\ stopIssued = FALSE
  /\ gracefulFailed = FALSE
  /\ waitOutcome = "none"
  /\ caught = NoError
  /\ result = NoResult
  /\ prev = NoResult
  /\ returned = InitialStatus
  /\ svcAtCall = svc
  /\ svcChanged = FALSE
  /\ held = NoHeld
  /\ waitCfg = ManagerWaitConfig(config)
  /\ strayGone = FALSE
  /\ spawned = "none"
  /\ trace = << >>
  /\ osPlatform = "none"
  /\ processPlatform = (IF platform = "unix" THEN "linux" ELSE "win32")
  /\ memo = NoMemo
  /\ AppStarted
  /\ DraftsNotRun

\* ------------------------------------------------------------ step helpers
Frame == UNCHANGED << platform, config, svc, svcAtCall, svcChanged, prev, waitCfg,
                      osPlatform, otherVars >>

\* an operation o is called; entry is its first await, wc the
\* HealthCheckConfig a health wait of the call will be given
InvokeWith(o, entry, wc) ==
  /\ pc = "idle"
  /\ waitCfg' = wc
  /\ pc' = entry
  /\ prev' = result
  /\ result' = [op |-> o, outcome |-> "pending", err |-> NoError]
  /\ attempts' = 0
  /\ elapsed' = 0
  /\ calls' = NoCalls
  /\ probes' = 0
  /\ lastFetch' = "none"
  /\ firstProbe' = "none"
  /\ postStopProbe' = "none"
  /\ stopIssued' = FALSE
  /\ gracefulFailed' = FALSE
  /\ strayGone' = FALSE
  /\ spawned' = "none"
  /\ osPlatform' = "none"
  /\ waitOutcome' = "none"
  /\ caught' = NoError
  /\ svcAtCall' = svc
  /\ svcChanged' = FALSE
  /\ UNCHANGED << platform, config, svc, returned, otherVars >>

\* a public operation of the manager is called
Invoke(o, entry) ==
  InvokeWith(o, entry, ManagerWaitConfig(config))

\* one HealthChecker.check() completes with answer h: its fetch ends the way
\* the service answers right now
Probed(h) ==
  /\ \E fetch \in FetchOutcomes :
       /\ (fetch = "ok") = svc
       /\ h = check(fetch)
       /\ lastFetch' = fetch
  /\ probes' = probes + 1
  /\ firstProbe' = IF firstProbe = "none" THEN B2S(h) ELSE firstProbe
  /\ postStopProbe' = IF stopIssued THEN B2S(h) ELSE postStopProbe

NoProbe == UNCHANGED << probes, lastFetch, firstProbe, postStopProbe >>

Continue(label) ==
  /\ pc' = label
  /\ UNCHANGED << result, caught >>

Resolve ==
  /\ pc' = "idle"
  /\ result' = [result EXCEPT !.outcome = "resolved"]
  /\ UNCHANGED caught

Throw(e) ==
  /\ pc' = "idle"
  /\ caught' = e
  /\ result' = [result EXCEPT !.outcome = "rejected",
                              !.err = Escapes(platform, result.op, e)]

\* -------------------------------------------------------------- environment
\* The service starts or stops answering its health endpoint.  A change while
\* no call is in flight is the same as a change right after the next call
\* begins (no call reads svc before its first await), so it is taken there.
ServiceChanges ==
  /\ pc # "idle"
  /\ svc' = ~svc
  /\ svcChanged' = TRUE
  /\ UNCHANGED << platform, config, status, held, pc, attempts, elapsed, calls,
                  probes, lastFetch, firstProbe, postStopProbe, stopIssued, gracefulFailed, strayGone, spawned, waitOutcome, caught,
                  result, prev, returned, svcAtCall, waitCfg, trace, osPlatform, otherVars >>

\* The caller writes into the ServiceStatus object it got from getStatus().
CallerChangesReturned ==
  /\ pc = "idle"
  /\ held.id # "none"
  /\ IF held.id = "status"
     THEN /\ status # CallerChange(status)
          /\ status' = CallerChange(status)
          /\ UNCHANGED held
     ELSE /\ held.value # CallerChange(held.value)
          /\ held' = [held EXCEPT !.value = CallerChange(@)]
          /\ UNCHANGED status
  /\ UNCHANGED << platform, config, svc, pc, attempts, elapsed, calls,
                  probes, lastFetch, firstProbe, postStopProbe, stopIssued,
                  gracefulFailed, strayGone, spawned, waitOutcome, caught, result, prev, returned,
                  svcAtCall, svcChanged, waitCfg, trace, osPlatform, otherVars >>

\* ------------------------------------------------- getStatus / checkHealth
getStatus_call ==
  /\ Invoke("getStatus", "getStatus_checkHealth")
  /\ trace' = << >>
  /\ UNCHANGED << status, held >>

getStatus_checkHealth ==
  /\ pc = "getStatus_checkHealth"
  /\ \E h \in BOOLEAN :
       /\ Probed(h)
       /\ status' = getStatus(status, h)
       /\ returned' = getStatus(status, h)
       /\ held' = [id |-> StatusCopy("status"), value |-> getStatus(status, h)]
       /\ trace' = << Step("health check", B2S(h)), Step("state", getStatus(status, h).state) >>
  /\ Resolve
  /\ Frame
  /\ UNCHANGED << attempts, elapsed, calls, stopIssued, gracefulFailed, strayGone, spawned, waitOutcome >>

checkHealth_call ==
  /\ Invoke("checkHealth", "checkHealth_check")
  /\ trace' = << >>
  /\ UNCHANGED << status, held >>

\* a checkHealth() that folds the probe's answer into the stored status
checkHealth_check_UpdatesStatus ==
  /\ pc = "checkHealth_check"
  /\ \E h \in BOOLEAN :
       /\ Probed(h)
       /\ status' = getStatus(status, h)
       /\ trace' = << Step("health check", B2S(h)) >>
  /\ Resolve
  /\ Frame
  /\ UNCHANGED << held, returned, attempts, elapsed, calls, stopIssued,
                  gracefulFailed, strayGone, spawned, waitOutcome >>

\* return this.healthChecker.check()
checkHealth_check ==
  /\ pc = "checkHealth_check"
  /\ \E h \in BOOLEAN :
       /\ Probed(h)
       /\ trace' = << Step("health check", B2S(h)) >>
  /\ Resolve
  /\ Frame
  /\ UNCHANGED << status, held, returned, attempts, elapsed, calls, stopIssued, gracefulFailed, strayGone, spawned,
                  waitOutcome >>

\* ------------------------------------------------------------ startService
startService_call ==
  /\ Invoke("startService", "start_checkHealth")
  /\ trace' = << >>
  /\ UNCHANGED << status, held >>

\* a startService() that goes to 'starting' without the first checkHealth()
startService_checkHealth_Skipped ==
  /\ pc = "start_checkHealth"
  /\ Continue("start_isProcessRunning")
  /\ status' = updateStatus(status, [state |-> "starting"]) /\ held' = Detached(held, status)
  /\ trace' = Append(trace, Step("state", "starting"))
  /\ NoProbe
  /\ Frame
  /\ UNCHANGED << returned, attempts, elapsed, calls, stopIssued, gracefulFailed, strayGone, spawned, waitOutcome >>

\* if (await this.checkHealth()) return;  this.updateStatus({state:'starting'})
startService_checkHealth ==
  /\ pc = "start_checkHealth"
  /\ \E h \in BOOLEAN :
       /\ Probed(h)
       /\ IF h
          THEN /\ Resolve
               /\ trace' = Append(trace, Step("health check", "true"))
               /\ UNCHANGED << status, held >>
          ELSE /\ Continue("start_isProcessRunning")
               /\ status' = updateStatus(status, [state |-> "starting"]) /\ held' = Detached(held, status)
               /\ trace' = trace \o << Step("health check", "false"), Step("state", "starting") >>
  /\ Frame
  /\ UNCHANGED << returned, attempts, elapsed, calls, stopIssued, gracefulFailed, strayGone, spawned, waitOutcome >>

\* if (await this.processManager.isProcessRunning(name))
startService_isProcessRunning ==
  /\ pc = "start_isProcessRunning"
  /\ \E found \in BOOLEAN :
       /\ calls' = [calls EXCEPT !.findProcess = @ + 1]
       /\ trace' = Append(trace, Step("lookup", B2S(found)))
       /\ Continue(IF found THEN "start_stopProcess" ELSE "start_startProcess")
  /\ NoProbe
  /\ Frame
  /\ UNCHANGED << status, held, returned, attempts, elapsed, stopIssued, gracefulFailed, strayGone, spawned, waitOutcome >>

\* a startService() that goes on to spawn although the stop threw
startService_stopProcess_SpawnsAnyway ==
  /\ pc = "start_stopProcess"
  /\ \E gone \in BOOLEAN, a \in BOOLEAN, b \in BOOLEAN :
       LET o == StopProcessOutcome(platform, a, b) IN
       /\ gone => AnswersWhenGone(platform, a, b)
       /\ strayGone' = gone
       /\ calls' = AddStopCalls(calls, o)
       /\ gracefulFailed' = o.gracefulFailed
       /\ trace' = Append(trace, Step("graceful stop", IF o.threw THEN "fail" ELSE "ok"))
       /\ Continue("start_startProcess")
  /\ stopIssued' = TRUE
  /\ NoProbe
  /\ Frame
  /\ UNCHANGED << status, held, returned, attempts, elapsed, waitOutcome, spawned >>

\* await this.processManager.stopProcess(name), inside the first inner try.
\* gone: the process isProcessRunning saw has exited by the time the stop
\* command runs, and the commands answer accordingly.
startService_stopProcess ==
  /\ pc = "start_stopProcess"
  /\ \E gone \in BOOLEAN, a \in BOOLEAN, b \in BOOLEAN :
       LET o == StopProcessOutcome(platform, a, b) IN
       /\ gone => AnswersWhenGone(platform, a, b)
       /\ strayGone' = gone
       /\ calls' = AddStopCalls(calls, o)
       /\ gracefulFailed' = o.gracefulFailed
       /\ trace' = Append(trace, Step("graceful stop", IF o.threw THEN "fail" ELSE "ok"))
       /\ IF o.threw
          THEN Throw(ProcessError("Failed to stop existing process",
                                  ProcessName(platform), "stop", o.error))
          ELSE Continue("start_startProcess")
  /\ stopIssued' = TRUE
  /\ NoProbe
  /\ Frame
  /\ UNCHANGED << status, held, returned, attempts, elapsed, waitOutcome, spawned >>

\* a startService() that spawns again when the spawn threw
startService_startProcess_Retries ==
  /\ pc = "start_startProcess"
  /\ \E out \in SpawnOutcomes :
       /\ spawned' = out
       /\ calls' = [calls EXCEPT !.startProcess = @ + 1]
       /\ trace' = Append(trace, Step("spawn", out))
       /\ IF startProcess(out).threw
          THEN Continue("start_startProcess")
          ELSE Continue(WaitEntry(ManagerWaitConfig(config)))
  /\ attempts' = 0
  /\ elapsed' = 0
  /\ NoProbe
  /\ Frame
  /\ UNCHANGED << status, held, returned, stopIssued, gracefulFailed, strayGone, waitOutcome >>

\* await this.processManager.startProcess(this.config.command), inside the
\* second inner try; then this.waitForHealth(healthChecker) begins.
\* startProcess calls exec(command, options) without a callback and returns:
\*   "spawned": the command was launched;
\*   "refused": the operating system did not launch it; exec() reports that
\*              later, to a callback nobody gave, and startProcess has returned;
\*   "threw":   exec() threw synchronously, the only failure the try can catch.
startService_startProcess ==
  /\ pc = "start_startProcess"
  /\ \E out \in SpawnOutcomes :
       /\ spawned' = out
       /\ calls' = [calls EXCEPT !.startProcess = @ + 1]
       /\ trace' = Append(trace, Step("spawn", out))
       /\ IF startProcess(out).threw
          THEN Throw(ProcessError("Failed to start process",
                                  ProcessName(platform), "start",
                                  startProcess(out).error))
          ELSE Continue(WaitEntry(ManagerWaitConfig(config)))
  /\ attempts' = 0
  /\ elapsed' = 0
  /\ NoProbe
  /\ Frame
  /\ UNCHANGED << status, held, returned, stopIssued, gracefulFailed, strayGone, waitOutcome >>

\* ------------------------------------------------------------ waitForHealth
waitForHealth_call ==
  /\ Invoke("waitForHealth", WaitEntry(ManagerWaitConfig(config)))
  /\ trace' = << >>
  /\ UNCHANGED << status, held >>

\* waitForHealth(checker, cfg, () => manager.getStatus()) of health.ts called
\* directly, with a HealthCheckConfig of the caller's choice
health_waitForHealth_call ==
  /\ \E cfg \in HealthCheckConfigs :
       InvokeWith("health.waitForHealth", WaitEntry(cfg), cfg)
  /\ trace' = << >>
  /\ UNCHANGED << status, held >>

\* a loop body whose timeout test is  Date.now() - start > config.timeout
waitForHealth_check_StrictlyLater ==
  /\ pc = "wait_check"
  /\ attempts < WaitMaxAttempts(waitCfg)
  /\ \E h \in BOOLEAN, d \in 0..MaxProbeLatency :
       /\ Probed(h)
       /\ trace' = Append(trace, Step("health poll", B2S(h)))
       /\ elapsed' = Min(elapsed + d, waitCfg.timeout)
       /\ IF h
          THEN /\ Resolve
               /\ waitOutcome' = "healthy"
               /\ UNCHANGED attempts
          ELSE IF elapsed + d > waitCfg.timeout
          THEN /\ Continue("wait_timeout")
               /\ UNCHANGED << attempts, waitOutcome >>
          ELSE /\ Continue("wait_sleep")
               /\ attempts' = attempts + 1
               /\ UNCHANGED waitOutcome
  /\ Frame
  /\ UNCHANGED << status, held, returned, calls, stopIssued, gracefulFailed, strayGone, spawned >>

\* a loop body that goes on to the sleep whatever the probe answered
waitForHealth_check_KeepsPolling ==
  /\ pc = "wait_check"
  /\ attempts < WaitMaxAttempts(waitCfg)
  /\ \E h \in BOOLEAN, d \in 0..MaxProbeLatency :
       /\ Probed(h)
       /\ trace' = Append(trace, Step("health poll", B2S(h)))
       /\ elapsed' = Min(elapsed + d, waitCfg.timeout)
       /\ IF Min(elapsed + d, waitCfg.timeout) >= waitCfg.timeout
          THEN /\ Continue("wait_timeout")
               /\ UNCHANGED << attempts, waitOutcome >>
          ELSE /\ Continue("wait_sleep")
               /\ attempts' = attempts + 1
               /\ UNCHANGED waitOutcome
  /\ Frame
  /\ UNCHANGED << status, held, returned, calls, stopIssued, gracefulFailed, strayGone, spawned >>

\* one pass of the loop body up to the sleep: the probe, the timeout test,
\* attempts++
waitForHealth_check ==
  /\ pc = "wait_check"
  /\ attempts < WaitMaxAttempts(waitCfg)
  /\ \E h \in BOOLEAN, d \in 0..MaxProbeLatency :
       /\ Probed(h)
       /\ trace' = Append(trace, Step("health poll", B2S(h)))
       /\ elapsed' = Min(elapsed + d, waitCfg.timeout)
       /\ IF h
          THEN /\ Resolve
               /\ waitOutcome' = "healthy"
               /\ UNCHANGED attempts
          ELSE IF Min(elapsed + d, waitCfg.timeout) >= waitCfg.timeout
          THEN /\ Continue("wait_timeout")
               /\ UNCHANGED << attempts, waitOutcome >>
          ELSE /\ Continue("wait_sleep")
               /\ attempts' = attempts + 1
               /\ UNCHANGED waitOutcome
  /\ Frame
  /\ UNCHANGED << status, held, returned, calls, stopIssued, gracefulFailed, strayGone, spawned >>

\* await new Promise(resolve => setTimeout(resolve, config.interval)), then the
\* loop test
waitForHealth_sleep ==
  /\ pc = "wait_sleep"
  /\ elapsed' = Min(elapsed + waitCfg.interval, waitCfg.timeout)
  /\ Continue(IF attempts < WaitMaxAttempts(waitCfg)
              THEN "wait_check" ELSE "wait_exhausted")
  /\ NoProbe
  /\ Frame
  /\ UNCHANGED << status, held, returned, attempts, calls, stopIssued, gracefulFailed, strayGone, spawned, waitOutcome, trace >>

\* const status = await currentStatus(); throw new TimeoutError(...)
\* currentStatus is () => this.getStatus()
waitForHealth_timeout ==
  /\ pc = "wait_timeout"
  /\ \E h \in BOOLEAN :
       /\ Probed(h)
       /\ status' = getStatus(status, h)
       /\ trace' = trace \o << Step("snapshot", B2S(h)), Step("state", getStatus(status, h).state) >>
  /\ UNCHANGED held
  /\ waitOutcome' = "timeout"
  /\ Throw(TimeoutError("Health check timed out", "health_check", waitCfg.timeout))
  /\ Frame
  /\ UNCHANGED << returned, attempts, elapsed, calls, stopIssued, gracefulFailed, strayGone, spawned >>

\* an exhaustion path that reports the stored status as it was before the
\* snapshot was fetched
waitForHealth_exhausted_StaleStatus ==
  /\ pc = "wait_exhausted"
  /\ \E h \in BOOLEAN :
       /\ Probed(h)
       /\ status' = getStatus(status, h)
       /\ trace' = trace \o << Step("snapshot", B2S(h)), Step("state", getStatus(status, h).state) >>
       /\ UNCHANGED held
       /\ Throw(HealthCheckError("Health check failed after maximum attempts",
                                 status, attempts))
  /\ waitOutcome' = "exhausted"
  /\ Frame
  /\ UNCHANGED << returned, attempts, elapsed, calls, stopIssued, gracefulFailed, strayGone, spawned >>

\* const status = await currentStatus(); throw new HealthCheckError(...)
waitForHealth_exhausted ==
  /\ pc = "wait_exhausted"
  /\ \E h \in BOOLEAN :
       /\ Probed(h)
       /\ status' = getStatus(status, h)
       /\ trace' = trace \o << Step("snapshot", B2S(h)), Step("state", getStatus(status, h).state) >>
       /\ UNCHANGED held
       /\ Throw(HealthCheckError("Health check failed after maximum attempts",
                                 getStatus(status, h), attempts))
  /\ waitOutcome' = "exhausted"
  /\ Frame
  /\ UNCHANGED << returned, attempts, elapsed, calls, stopIssued, gracefulFailed, strayGone, spawned >>

\* ------------------------------------------------------------- stopService
\* Unix: this.updateStatus({state:'stopping'}) and the call of stopProcess run
\* before the first await.  Windows: the first await is checkHealth().
stopService_call ==
  IF platform = "unix"
  THEN /\ Invoke("stopService", "stop_stopProcess")
       /\ status' = updateStatus(status, [state |-> "stopping"]) /\ held' = Detached(held, status)
       /\ trace' = << Step("state", "stopping") >>
  ELSE /\ Invoke("stopService", "stop_checkHealth")
       /\ trace' = << >>
       /\ UNCHANGED << status, held >>

\* Windows: if (!(await this.checkHealth())) { updateStatus(stopped); return }
\*          this.updateStatus({state:'stopping'})
stopService_checkHealth ==
  /\ pc = "stop_checkHealth"
  /\ platform = "windows"
  /\ \E h \in BOOLEAN :
       /\ Probed(h)
       /\ IF ~h
          THEN /\ Resolve
               /\ status' = updateStatus(status, [running |-> FALSE, state |-> "stopped"]) /\ held' = Detached(held, status)
               /\ trace' = trace \o << Step("health check", "false"), Step("state", "stopped") >>
          ELSE /\ Continue("stop_stopProcess")
               /\ status' = updateStatus(status, [state |-> "stopping"]) /\ held' = Detached(held, status)
               /\ trace' = trace \o << Step("health check", "true"), Step("state", "stopping") >>
  /\ Frame
  /\ UNCHANGED << returned, attempts, elapsed, calls, stopIssued, gracefulFailed, strayGone, spawned, waitOutcome >>

\* await this.processManager.stopProcess(name)
\* Unix: on return updateStatus(stopped); a throw becomes a ProcessError.
\* Windows: on return the poll loop begins; a throw enters the force-stop catch.
stopService_stopProcess ==
  /\ pc = "stop_stopProcess"
  /\ \E a \in BOOLEAN, b \in BOOLEAN :
       LET o == StopProcessOutcome(platform, a, b) IN
       /\ calls' = AddStopCalls(calls, o)
       /\ gracefulFailed' = o.gracefulFailed
       /\ IF platform = "unix"
          THEN IF o.threw
               THEN /\ Throw(ProcessError("Failed to stop process",
                                          ProcessName(platform), "stop", o.error))
                    /\ trace' = Append(trace, Step("graceful stop", "fail"))
                    /\ UNCHANGED << status, held >>
               ELSE /\ Resolve
                    /\ status' = updateStatus(status, [running |-> FALSE, state |-> "stopped"]) /\ held' = Detached(held, status)
                    /\ trace' = trace \o << Step("graceful stop", "ok"), Step("state", "stopped") >>
          ELSE /\ Continue(IF o.threw THEN "stop_forceStop" ELSE "stop_poll")
               /\ trace' = Append(trace, Step("graceful stop", IF o.threw THEN "fail" ELSE "ok"))
               /\ UNCHANGED << status, held >>
  /\ stopIssued' = TRUE
  /\ attempts' = 0
  /\ NoProbe
  /\ Frame
  /\ UNCHANGED << returned, elapsed, waitOutcome, strayGone, spawned >>

\* Windows: while (attempts < 5) { if (!(await this.checkHealth())) break; ...
stopService_poll ==
  /\ pc = "stop_poll"
  /\ attempts < StopPollLimit
  /\ \E h \in BOOLEAN :
       /\ Probed(h)
       /\ IF ~h
          THEN /\ Resolve
               /\ status' = updateStatus(status, [running |-> FALSE, state |-> "stopped"]) /\ held' = Detached(held, status)
               /\ trace' = trace \o << Step("health poll", "false"), Step("state", "stopped") >>
          ELSE /\ Continue("stop_pollSleep")
               /\ trace' = Append(trace, Step("health poll", "true"))
               /\ UNCHANGED << status, held >>
  /\ Frame
  /\ UNCHANGED << returned, attempts, elapsed, calls, stopIssued, gracefulFailed, strayGone, spawned, waitOutcome >>

\* a post-stop loop that never counts its polls
stopService_pollSleep_NoCount ==
  /\ pc = "stop_pollSleep"
  /\ Continue("stop_poll")
  /\ NoProbe
  /\ Frame
  /\ UNCHANGED << status, held, trace, attempts, returned, elapsed, calls, stopIssued,
                  gracefulFailed, strayGone, spawned, waitOutcome >>

\* Windows: ... await setTimeout(1000); attempts++ }  and, when the loop ends,
\* this.updateStatus({running:false, state:'stopped'})
stopService_pollSleep ==
  /\ pc = "stop_pollSleep"
  /\ attempts' = attempts + 1
  /\ IF attempts + 1 < StopPollLimit
     THEN /\ Continue("stop_poll")
          /\ UNCHANGED << status, held, trace >>
     ELSE /\ Resolve
          /\ status' = updateStatus(status, [running |-> FALSE, state |-> "stopped"]) /\ held' = Detached(held, status)
          /\ trace' = Append(trace, Step("state", "stopped"))
  /\ NoProbe
  /\ Frame
  /\ UNCHANGED << returned, elapsed, calls, stopIssued, gracefulFailed, strayGone, spawned, waitOutcome >>

\* Windows: catch (error) { try { await forceStopProcess(name); stopped }
\*                          catch (forceError) { throw new ProcessError } }
stopService_forceStop ==
  /\ pc = "stop_forceStop"
  /\ \E ok \in BOOLEAN :
       LET o == WindowsForceStopProcess(ok) IN
       /\ calls' = [calls EXCEPT !.forceStopProcess = @ + 1]
       /\ IF o.threw
          THEN /\ Throw(ProcessError("Failed to force stop process",
                                     ProcessName(platform), "stop", o.error))
               /\ trace' = Append(trace, Step("forced stop", "fail"))
               /\ UNCHANGED << status, held >>
          ELSE /\ Resolve
               /\ status' = updateStatus(status, [running |-> FALSE, state |-> "stopped"]) /\ held' = Detached(held, status)
               /\ trace' = trace \o << Step("forced stop", "ok"), Step("state", "stopped") >>
  /\ NoProbe
  /\ Frame
  /\ UNCHANGED << returned, attempts, elapsed, stopIssued, gracefulFailed, strayGone, spawned, waitOutcome >>

\* ------------------------------------------------------------ specification
Next ==
  \/ ServiceChanges
  \/ CallerChangesReturned
  \/ getStatus_call
  \/ getStatus_checkHealth
  \/ checkHealth_call
  \/ checkHealth_check
  \/ startService_call
  \/ startService_checkHealth
  \/ startService_isProcessRunning
  \/ startService_stopProcess
  \/ startService_startProcess
  \/ waitForHealth_call
  \/ health_waitForHealth_call
  \/ waitForHealth_check
  \/ waitForHealth_sleep
  \/ waitForHealth_timeout
  \/ waitForHealth_exhausted
  \/ stopService_call
  \/ stopService_checkHealth
  \/ stopService_stopProcess
  \/ stopService_poll
  \/ stopService_pollSleep
  \/ stopService_forceStop

Spec == Init /\ [][Next]_vars

\* ------------------------------------------------------------------- typing
TypeOK ==
  /\ platform \in Platforms
  /\ config \in Configs
  /\ svc \in BOOLEAN
  /\ status.running \in BOOLEAN
  /\ status.state \in {"starting", "running", "stopping", "stopped", "error"}
  /\ attempts \in 0..10
  /\ elapsed \in 0..waitCfg.timeout
  /\ result.outcome \in {"none", "pending", "resolved", "rejected"}
  /\ (pc = "idle") = (result.outcome # "pending")

\* ------------------------------------------------------------------ claims
Done(o) == pc = "idle" /\ result.op = o /\ result.outcome # "pending"

Resolved(o) == pc = "idle" /\ result.op = o /\ result.outcome = "resolved"

Rejected(o) == pc = "idle" /\ result.op = o /\ result.outcome = "rejected"

\* getStatus() has just returned and the call before it was o, which rejected
StatusReadAfterRejected(o) ==
  Resolved("getStatus") /\ prev.op = o /\ prev.outcome = "rejected"

\* C1: in every reachable state of the manager, intermediate states of
\* startService and stopService included, the stored status has
\* running = TRUE exactly when state = 'running'.
C1_RunningIffStateRunning ==
  status.running <=> (status.state = "running")

\* C2: when startService() began with an unhealthy service and its health wait
\* succeeded, the stored status is {running: true, state: 'running'} at the
\* moment startService resolves.
C2_StartReachesRunning ==
  (Resolved("startService") /\ firstProbe = "false" /\ waitOutcome = "healthy")
    => (status.state = "running" /\ status.running)

\* C3: whenever startService() rejects the stored state is 'error', and a
\* getStatus() made right after the rejection returns state 'error'.
C3_RejectedStartIsError ==
  /\ Rejected("startService") => status.state = "error"
  /\ StatusReadAfterRejected("startService") => returned.state = "error"

\* C4: after startService() or stopService() rejected, the status a later
\* getStatus() returns has lastError equal to the message of the error raised.
C4_LastErrorRecorded ==
  \A o \in {"startService", "stopService"} :
    StatusReadAfterRejected(o) => returned.lastError = prev.err.message

\* C5: a TimeoutError, HealthCheckError or ProcessError raised inside
\* startService() / stopService() reaches the caller as that same error.
C5_TypedErrorsReachCaller ==
  \A o \in {"startService", "stopService"} :
    (Rejected(o) /\ caught.name \in {"TimeoutError", "HealthCheckError", "ProcessError"})
      => (result.err = caught /\ result.err.code = caught.code)

C7_IdempotentStart ==
  ( Resolved("startService")
    /\ prev.op = "startService" /\ prev.outcome = "resolved"
    /\ svcAtCall /\ ~svcChanged )
    => (calls = NoCalls /\ status.state = "running")

\* C8: on every strategy, stopService() called while the service is unhealthy
\* resolves with state 'stopped' and invokes no ProcessManager method.
C8_IdempotentStop ==
  (Done("stopService") /\ ~svcAtCall /\ ~svcChanged)
    => ( /\ result.outcome = "resolved"
         /\ status.state = "stopped"
         /\ calls = NoCalls )

\* C9: in stopService() on a healthy service, once the graceful stop has failed
\* the forced stop is attempted exactly once before the call ends; if the
\* forced stop failed too the call rejects with a ProcessError and the state is
\* 'error'.
C9_StopEscalation ==
  (Done("stopService") /\ svcAtCall /\ gracefulFailed)
    => /\ calls.forceStopProcess = 1
       /\ result.outcome = "rejected" =>
            (result.err.name = "ProcessError" /\ status.state = "error")

\* C10: stopService() that issued a stop command resolves (state 'stopped')
\* only after a probe made after that command answered false; and a
\* getStatus() right after, the service not having changed, returns
\* {running: false, state: 'stopped'}.
C10_PostStopConfirmation ==
  /\ (Resolved("stopService") /\ stopIssued) => postStopProbe = "false"
  /\ ( Resolved("getStatus") /\ prev.op = "stopService"
       /\ prev.outcome = "resolved" /\ ~svcChanged )
       => (~returned.running /\ returned.state = "stopped")

C12_ReturnsCopy ==
  /\ [][(pc = "idle" /\ pc' = "idle") => status' = status]_vars
  /\ [](status.lastError # Tampered /\ returned.lastError # Tampered)

\* C12 witness: the caller has changed the object returned by the last
\* getStatus(); the stored status is still the value that was returned.
C12_Witness ==
  /\ Resolved("getStatus")
  /\ held.id = "copy"
  /\ held.value = CallerChange(returned)
  /\ held.value # returned
  /\ status = returned

\* C13: checkHealth() leaves the stored status unchanged whatever the probe
\* answers, and so does every step that consists only of a probe or of
\* ProcessManager calls: the status is written by ServiceManager code only.
ProbeOrProcessOnlyStep ==
  \/ pc \in {"checkHealth_check", "wait_check", "wait_sleep"}
  \/ pc \in {"start_isProcessRunning", "start_stopProcess", "start_startProcess"}
  \/ (pc = "stop_stopProcess" /\ platform = "windows")

C13_CheckHealthNoSideEffect ==
  [][ProbeOrProcessOnlyStep => status' = status]_vars

\* C13 witness: checkHealth() has returned true while the stored status still
\* says stopped.
C13_Witness ==
  /\ Resolved("checkHealth")
  /\ firstProbe = "true"
  /\ ~status.running
  /\ status.state = "stopped"

\* C14: the health probe never raises: checkHealth() always resolves, and it
\* returns true exactly when the fetch completed with an ok response; a
\* rejected fetch and a non-ok response both give false.  The same holds of
\* the probe inside getStatus().
C14_ProbeNeverRaises ==
  /\ Done("checkHealth") =>
       /\ result.outcome = "resolved"
       /\ probes = 1
       /\ lastFetch \in FetchOutcomes
       /\ (firstProbe = "true") = (lastFetch = "ok")
  /\ Done("getStatus") =>
       /\ result.outcome = "resolved"
       /\ returned.running = (lastFetch = "ok")

\* C14 witness: the fetch of a checkHealth() was rejected (transport failure)
\* and checkHealth() resolved with false.
C14_Witness ==
  /\ Resolved("checkHealth")
  /\ lastFetch = "rejected"
  /\ firstProbe = "false"

\* C15: exhaustion before timeout.  When waitForHealth() is called with a
\* positive maxAttempts and every probe fails, and the attempts, their
\* intervals and the time spent in the probes end before the timeout has
\* elapsed, the call raises the HealthCheckError carrying attempts equal to
\* maxAttempts, never the TimeoutError.
C15_ExhaustionBeforeTimeout ==
  (/\ Rejected("health.waitForHealth")
   /\ waitCfg.hasMaxAttempts
   /\ waitCfg.maxAttempts > 0
   /\ elapsed < waitCfg.timeout)
  => /\ waitOutcome = "exhausted"
     /\ result.err.name = "HealthCheckError"
     /\ result.err.attempts = waitCfg.maxAttempts
     /\ attempts = waitCfg.maxAttempts

\* timeout = 5000ms, interval = 1000ms, maxAttempts = 3 and three failed
\* probes: the call has rejected with the exhaustion error
C15_Witness ==
  /\ Rejected("health.waitForHealth")
  /\ waitCfg = [timeout |-> 10, interval |-> 2, hasMaxAttempts |-> TRUE, maxAttempts |-> 3]
  /\ elapsed < waitCfg.timeout
  /\ result.err.name = "HealthCheckError"
  /\ result.err.attempts = 3
  /\ probes = 4

\* C16: with healthCheck {timeout: 5000, interval: 500} and no maxAttempts,
\* when every probe answers false, startService() rejects with a TimeoutError
\* (code TIMEOUT_ERROR), and only once 5000ms have elapsed since the health
\* wait began.
C16_StartTimesOut ==
  (/\ Rejected("startService")
   /\ config = [timeout |-> 10, interval |-> 1, hasMaxAttempts |-> FALSE, maxAttempts |-> 0]
   /\ waitOutcome # "none")
  => /\ result.err.name = "TimeoutError"
     /\ result.err.code = ErrorCode.TimeoutError
     /\ elapsed >= config.timeout

\* C17 as stated: with healthCheck {timeout: 5000, interval: 500} and probe
\* results false, false, true, startService() resolves after exactly two poll
\* intervals have been slept.
C17_ResolvesAfterTwoIntervals ==
  (/\ Resolved("startService")
   /\ config = [timeout |-> 10, interval |-> 1, hasMaxAttempts |-> FALSE, maxAttempts |-> 0]
   /\ probes = 3)
  => attempts = 2

\* C17, amended: with healthCheck {timeout: 5000, interval: 500} and probe
\* results false, false, true, the first false is the answer to the
\* checkHealth() that opens startService(), so the health wait makes two probes
\* and startService() resolves after exactly one poll interval has been slept
\* (500ms plus the time spent in the two probes); a getStatus() that follows a
\* resolved startService() while the service keeps answering returns
\* running == true, state == 'running'.
C17_ResolvesAfterOneInterval ==
  /\ (/\ Resolved("startService")
      /\ config = [timeout |-> 10, interval |-> 1, hasMaxAttempts |-> FALSE, maxAttempts |-> 0]
      /\ probes = 3)
     => /\ firstProbe = "false"
        /\ waitOutcome = "healthy"
        /\ attempts = 1
        /\ elapsed >= config.interval
        /\ elapsed <= config.interval + 2 * MaxProbeLatency
  /\ (/\ Resolved("getStatus")
      /\ prev.op = "startService"
      /\ prev.outcome = "resolved"
      /\ ~svcChanged)
     => (returned.running /\ returned.state = "running")

\* startService() has resolved on its third probe after one slept interval
C17_Witness ==
  /\ Resolved("startService")
  /\ config = [timeout |-> 10, interval |-> 1, hasMaxAttempts |-> FALSE, maxAttempts |-> 0]
  /\ probes = 3
  /\ firstProbe = "false"
  /\ attempts = 1
  /\ calls.startProcess = 1
  /\ svc

\* C18: the attempt budget of waitForHealth() is config.maxAttempts whenever
\* maxAttempts is supplied, 0 included, and floor(timeout / interval) only when
\* it is absent: the wait never counts more failed attempts than that budget,
\* and when it fails by exhaustion the error carries exactly that budget.
C18_BudgetIsSuppliedMaxAttempts ==
  LET budget == IF waitCfg.hasMaxAttempts
                THEN waitCfg.maxAttempts
                ELSE waitCfg.timeout \div waitCfg.interval
  IN  result.op = "health.waitForHealth" =>
        /\ attempts <= budget
        /\ (Rejected("health.waitForHealth") /\ waitOutcome = "exhausted")
             => result.err.attempts = budget

\* C19: startService() and the manager's waitForHealth() run the health wait
\* with the whole configured budget: when healthCheck.maxAttempts is set to n,
\* the wait counts at most n failed probes and, when it fails by exhaustion,
\* the HealthCheckError carries attempts == n.
C19_ManagerUsesConfiguredBudget ==
  (result.op \in {"startService", "waitForHealth"} /\ config.hasMaxAttempts)
  => /\ attempts <= config.maxAttempts
     /\ (pc = "idle" /\ waitOutcome = "exhausted")
          => caught.attempts = config.maxAttempts

\* C20: the stored state starts as 'stopped' and, over any sequence of calls,
\* changes only along stopped->starting, starting->running, running->stopping,
\* stopping->stopped, starting->error, stopping->error, error->starting and
\* error->stopping.
C20_StateChangesAlongEdges ==
  /\ status.state = "stopped"
  /\ [][status'.state # status.state =>
          << status.state, status'.state >> \in
            { << "stopped", "starting" >>, << "starting", "running" >>,
              << "running", "stopping" >>, << "stopping", "stopped" >>,
              << "starting", "error" >>, << "stopping", "error" >>,
              << "error", "starting" >>, << "error", "stopping" >> }]_vars

\* C25: waitForHealth() returns without error as soon as one probe of its loop
\* answers true: a call whose last loop probe was answered 'ok' is over and
\* resolved, with no further probe or sleep; and the loop of every call makes
\* at most maxAttempts probes (the probe of the status snapshot taken on
\* failure is made by currentStatus(), not by the loop).
C25_ReturnsOnFirstHealthyProbe ==
  result.op \in {"waitForHealth", "health.waitForHealth"} =>
    LET failed == waitOutcome \in {"timeout", "exhausted"}
        loopProbes == IF failed THEN probes - 1 ELSE probes
    IN  /\ (lastFetch = "ok" /\ ~failed)
             => /\ pc = "idle"
                /\ result.outcome = "resolved"
                /\ result.err = NoError
                /\ waitOutcome = "healthy"
                /\ probes = attempts + 1
        /\ waitOutcome = "healthy" => (lastFetch = "ok" /\ result.outcome = "resolved")
        /\ loopProbes <= WaitMaxAttempts(waitCfg)

\* waitForHealth() resolved on its third probe, after two failed ones
C25_Witness ==
  /\ Resolved("health.waitForHealth")
  /\ waitOutcome = "healthy"
  /\ lastFetch = "ok"
  /\ probes = 3
  /\ attempts = 2

\* C26: waitForHealth() raises HealthCheckError only when the loop has ended
\* with attempts == maxAttempts failed probes counted, none of which met the
\* timeout condition; the error carries exactly that count and the status
\* snapshot fetched at that moment (running as the snapshot's probe answered).
C26_ExhaustionError ==
  /\ pc = "wait_exhausted" => attempts = WaitMaxAttempts(waitCfg)
  /\ (pc = "idle" /\ caught.name = "HealthCheckError")
       => /\ waitOutcome = "exhausted"
          /\ attempts = WaitMaxAttempts(waitCfg)
          /\ caught.attempts = attempts
          /\ caught.code = ErrorCode.HealthCheckError
          /\ caught.serviceStatus = << status >>
          /\ status.running = (lastFetch = "ok")
  /\ waitOutcome = "exhausted" => caught.name = "HealthCheckError"

\* a direct waitForHealth() with maxAttempts 3 failed by exhaustion; the
\* snapshot it carries differs from the status stored before
C26_Witness ==
  /\ Rejected("health.waitForHealth")
  /\ result.err.name = "HealthCheckError"
  /\ result.err.attempts = 3
  /\ result.err.serviceStatus = << status >>
  /\ status.state = "running"
  /\ probes = 4

\* C27: waitForHealth() raises TimeoutError exactly when a probe of the loop
\* has just failed and the time elapsed since the wait began is >= timeout
\* (attempts being < maxAttempts, as in every pass of the loop): a failed probe
\* before that goes on to the sleep.  The error carries operation
\* 'health_check' and timeoutMs == config.timeout, and the call is over once
\* it is raised.
C27_TimeoutError ==
  /\ pc = "wait_timeout"
       => /\ lastFetch # "ok"
          /\ elapsed >= waitCfg.timeout
          /\ attempts < WaitMaxAttempts(waitCfg)
  /\ pc = "wait_sleep"
       => (lastFetch # "ok" /\ elapsed < waitCfg.timeout)
  /\ (pc = "idle" /\ caught.name = "TimeoutError")
       => /\ waitOutcome = "timeout"
          /\ caught.operation = "health_check"
          /\ caught.timeoutMs = waitCfg.timeout
          /\ caught.code = ErrorCode.TimeoutError
          /\ elapsed >= waitCfg.timeout
          /\ attempts < WaitMaxAttempts(waitCfg)
  /\ waitOutcome = "timeout" => (pc = "idle" /\ caught.name = "TimeoutError")

\* a direct waitForHealth() with timeout 2000ms, interval 1000ms and
\* maxAttempts 3 timed out after its second failed probe
C27_Witness ==
  /\ Rejected("health.waitForHealth")
  /\ waitCfg = [timeout |-> 4, interval |-> 2, hasMaxAttempts |-> TRUE, maxAttempts |-> 3]
  /\ result.err.name = "TimeoutError"
  /\ result.err.timeoutMs = 4
  /\ attempts = 2
  /\ elapsed >= 4

\* C28: during the reconciliation of startService(), a stray process that has
\* exited by the time the stop command runs counts as success on both
\* platforms: startService() does not reject with a ProcessError for the
\* stop, and it goes on to spawn the command.
C28_MissingStrayProcessTolerated ==
  (Done("startService") /\ strayGone)
  => /\ ~(result.outcome = "rejected" /\ caught.name = "ProcessError"
                                      /\ caught.operation = "stop")
     /\ calls.startProcess = 1

\* C30: when the operating system does not launch the configured command,
\* startService() rejects with a ProcessError whose operation is 'start' and
\* whose cause is the failure of the spawn, and the health wait is not run:
\* the probe of the initial health check is the only one of the call.
C30_RefusedSpawnIsProcessError ==
  (result.op = "startService" /\ spawned \in {"refused", "threw"})
  => /\ pc = "idle"
     /\ result.outcome = "rejected"
     /\ result.err.name = "ProcessError"
     /\ result.err.operation = "start"
     /\ result.err.cause = << RawError("exec failed") >>
     /\ probes = 1

\* C29: the steps of one startService() call come in this order: the initial
\* health check; when it answered false, the write of state 'starting'; the
\* lookup of a stray process and, when one was found, its stop; the spawn of
\* the command; the probes of the health wait, each after a failed one; on a
\* failed wait the status snapshot.  The command is spawned at most once, and
\* a step that failed is the last step of the call: nothing is retried.
C29_StartStepsInOrder ==
  result.op = "startService" =>
    LET n == Len(trace)
        Rank(e) == CASE e.step = "spawn"       -> 5
                     [] e.step = "health poll" -> 6
                     [] e.step = "snapshot"    -> 7
                     [] e.step = "state"       -> 8
                     [] OTHER                  -> 0
    IN  /\ \A i \in 1..n :
             CASE i = 1 -> trace[i].step = "health check"
               [] i = 2 -> trace[1].input = "false" /\ trace[i] = Step("state", "starting")
               [] i = 3 -> trace[i].step = "lookup"
               [] i = 4 -> trace[i].step = (IF trace[3].input = "true"
                                            THEN "graceful stop" ELSE "spawn")
               [] i = 5 /\ trace[3].input = "true"
                        -> trace[4].input = "ok" /\ trace[i].step = "spawn"
               [] OTHER -> /\ Rank(trace[i - 1]) >= 5
                           /\ Rank(trace[i]) >= 6
                           /\ \/ Rank(trace[i - 1]) < Rank(trace[i])
                              \/ /\ trace[i].step = "health poll"
                                 /\ trace[i - 1] = Step("health poll", "false")
        /\ calls.startProcess <= 1
        /\ calls.stopProcess <= 1
        /\ \A i \in 1..n :
             trace[i].input \in {"fail", "threw"}
               => (i = n /\ pc = "idle" /\ result.outcome = "rejected")
        /\ (pc \notin {"idle", "start_checkHealth"}) => status.state = "starting"

\* a startService() that found a stray process, stopped it, spawned the
\* command and resolved on the second probe of the health wait
C29_Witness ==
  /\ Resolved("startService")
  /\ Len(trace) = 7
  /\ trace[3] = Step("lookup", "true")
  /\ trace[4] = Step("graceful stop", "ok")
  /\ trace[5] = Step("spawn", "spawned")
  /\ trace[6] = Step("health poll", "false")
  /\ trace[7] = Step("health poll", "true")

\* ------------------------------------------------- ServiceManagerFactory
\* values of process.platform / of the platform argument; the last one stands
\* for every value the switch has no case for
OsPlatforms == {"win32", "linux", "darwin", "freebsd"}

\* `Unsupported platform: ${platform}`
UnsupportedPlatformMessage(p) ==
  CASE p = "freebsd" -> "Unsupported platform: freebsd"
    [] OTHER -> "Unsupported platform: "

\* a createForPlatform() whose switch has no case 'darwin'
createForPlatform_NoDarwin(p) ==
  CASE p = "win32" -> [threw |-> FALSE, manager |-> "windows", error |-> NoError]
    [] p = "linux" -> [threw |-> FALSE, manager |-> "unix", error |-> NoError]
    [] OTHER -> [threw |-> TRUE, manager |-> "none",
                 error |-> RawError(UnsupportedPlatformMessage(p))]

\* static createForPlatform(platform, config): switch (platform)
createForPlatform(p) ==
  CASE p = "win32" -> [threw |-> FALSE, manager |-> "windows", error |-> NoError]
    [] p \in {"linux", "darwin"} ->
         [threw |-> FALSE, manager |-> "unix", error |-> NoError]
    [] OTHER -> [threw |-> TRUE, manager |-> "none",
                 error |-> RawError(UnsupportedPlatformMessage(p))]

\* static create(config): switch (process.platform)
create(pp) ==
  CASE pp = "win32" -> [threw |-> FALSE, manager |-> "windows", error |-> NoError]
    [] pp \in {"linux", "darwin"} ->
         [threw |-> FALSE, manager |-> "unix", error |-> NoError]
    [] OTHER -> [threw |-> TRUE, manager |-> "none",
                 error |-> RawError(UnsupportedPlatformMessage(pp))]

\* new XServiceManager(config): the caller now holds a manager of class plat
\* in the state its constructor leaves
Constructed(plat) ==
  /\ platform' = plat
  /\ status' = InitialStatus
  /\ held' = NoHeld
  /\ returned' = InitialStatus
  /\ attempts' = 0
  /\ elapsed' = 0
  /\ calls' = NoCalls
  /\ probes' = 0
  /\ lastFetch' = "none"
  /\ firstProbe' = "none"
  /\ postStopProbe' = "none"
  /\ stopIssued' = FALSE
  /\ gracefulFailed' = FALSE
  /\ strayGone' = FALSE
  /\ spawned' = "none"
  /\ waitOutcome' = "none"
  /\ caught' = NoError
  /\ svcAtCall' = svc
  /\ svcChanged' = FALSE
  /\ waitCfg' = ManagerWaitConfig(config)
  /\ trace' = << >>

\* the factory threw: the caller keeps the manager it had
NotConstructed ==
  UNCHANGED << platform, status, held, returned, attempts, elapsed, calls, probes,
               lastFetch, firstProbe, postStopProbe, stopIssued, gracefulFailed,
               strayGone, spawned, waitOutcome, caught, svcAtCall, svcChanged,
               waitCfg, trace >>

\* a factory method called as o with platform value p answers made
Made(o, p, made) ==
  /\ pc = "idle"
  /\ pc' = "idle"
  /\ osPlatform' = p
  /\ prev' = result
  /\ result' = [op |-> o,
                outcome |-> IF made.threw THEN "rejected" ELSE "resolved",
                err |-> made.error]
  /\ IF made.threw THEN NotConstructed ELSE Constructed(made.manager)
  /\ UNCHANGED << config, svc, otherVars >>

createForPlatform_call ==
  \E p \in OsPlatforms : Made("createForPlatform", p, createForPlatform(p))

create_call ==
  Made("create", processPlatform, create(processPlatform))

\* how a call ended: resolved, or the class of the error it rejected with
OutcomeClass(r) ==
  IF r.outcome = "rejected" THEN r.err.name ELSE r.outcome

\* the manager just made has had no call yet
Fresh == pc = "idle" /\ trace = << >> /\ result.op \in {"none", "create", "createForPlatform"}

first_startService_call == Fresh /\ startService_call

first_stopService_call == Fresh /\ stopService_call

\* the first call made on a WindowsServiceManager is noted down, to be compared
\* with the same call on a UnixServiceManager
Remember ==
  /\ pc = "idle"
  /\ platform = "windows"
  /\ result.op \in {"startService", "stopService"}
  /\ ~memo.taken
  /\ memo' = [taken |-> TRUE, platform |-> platform, op |-> result.op,
              trace |-> trace, outcome |-> OutcomeClass(result)]
  /\ UNCHANGED << platform, config, svc, status, held, pc, attempts, elapsed, calls,
                  probes, lastFetch, firstProbe, postStopProbe, stopIssued,
                  gracefulFailed, strayGone, spawned, waitOutcome, caught, result,
                  prev, returned, svcAtCall, svcChanged, waitCfg, trace, osPlatform,
                  processPlatform, appVars, draftVars >>

\* timeout 5000 ms, interval 2500 ms: every health wait ends by its attempts,
\* whatever the latency of the probes
FactoryConfig == [timeout |-> 10, interval |-> 5, hasMaxAttempts |-> FALSE, maxAttempts |-> 0]

FactoryInit ==
  /\ platform \in Platforms
  /\ config = FactoryConfig
  /\ svc \in BOOLEAN
  /\ status = InitialStatus
  /\ pc = "idle"
  /\ attempts = 0
  /\ elapsed = 0
  /\ calls = NoCalls
  /\ probes = 0
  /\ lastFetch = "none"
  /\ firstProbe = "none"
  /\ postStopProbe = "none"
  /\ stopIssued = FALSE
  /\ gracefulFailed = FALSE
  /\ waitOutcome = "none"
  /\ caught = NoError
  /\ result = NoResult
  /\ prev = NoResult
  /\ returned = InitialStatus
  /\ svcAtCall = svc
  /\ svcChanged = FALSE
  /\ held = NoHeld
  /\ waitCfg = ManagerWaitConfig(config)
  /\ strayGone = FALSE
  /\ spawned = "none"
  /\ trace = << >>
  /\ osPlatform = "none"
  /\ processPlatform \in OsPlatforms
  /\ memo = NoMemo
  /\ AppStarted
  /\ DraftsNotRun

FactoryNext ==
  \/ ServiceChanges
  \/ createForPlatform_call
  \/ create_call
  \/ Remember
  \/ first_startService_call
  \/ startService_checkHealth
  \/ startService_isProcessRunning
  \/ startService_stopProcess
  \/ startService_startProcess
  \/ waitForHealth_check
  \/ waitForHealth_sleep
  \/ waitForHealth_exhausted
  \/ first_stopService_call
  \/ stopService_checkHealth
  \/ stopService_stopProcess
  \/ stopService_poll
  \/ stopService_pollSleep
  \/ stopService_forceStop

FactorySpec == FactoryInit /\ [][FactoryNext]_vars

\* C21: createForPlatform(p, config) returns a WindowsServiceManager for
\* 'win32', a UnixServiceManager for 'linux' and 'darwin', and for every other p
\* throws 'Unsupported platform: <p>' and creates no manager (the caller's
\* manager is as it was); create(config) chooses the same way from
\* process.platform.
C21_FactoryChoice ==
  /\ [](result.op \in {"create", "createForPlatform"} =>
          /\ pc = "idle"
          /\ result.op = "create" => osPlatform = processPlatform
          /\ osPlatform = "win32" =>
               /\ result.outcome = "resolved"
               /\ platform = "windows"
               /\ status = InitialStatus /\ trace = << >> /\ calls = NoCalls
          /\ osPlatform \in {"linux", "darwin"} =>
               /\ result.outcome = "resolved"
               /\ platform = "unix"
               /\ status = InitialStatus /\ trace = << >> /\ calls = NoCalls
          /\ osPlatform \notin {"win32", "linux", "darwin"} =>
               /\ result.outcome = "rejected"
               /\ result.err.name = "Error"
               /\ osPlatform = "freebsd" =>
                    result.err.message = "Unsupported platform: freebsd")
  /\ [][(/\ pc = "idle" /\ pc' = "idle"
         /\ result'.op \in {"create", "createForPlatform"}
         /\ result'.outcome = "rejected")
        => UNCHANGED << platform, status, held, calls, trace >>]_vars

\* createForPlatform('freebsd') threw while the caller held a
\* WindowsServiceManager that had already been called
C21_Witness ==
  /\ Rejected("createForPlatform")
  /\ osPlatform = "freebsd"
  /\ platform = "windows"
  /\ trace # << >>

\* C22: given the same answers so far (probe results, outcomes of the process
\* primitives), a UnixServiceManager and a WindowsServiceManager take the same
\* next step of startService / stopService and write the same states, and when
\* all answers were the same the two calls end after the same steps with the
\* same outcome class.
C22_SameStepsOnBothPlatforms ==
  (memo.taken /\ platform = "unix" /\ memo.platform = "windows"
     /\ result.op = memo.op) =>
    LET t1 == memo.trace
        t2 == trace
        n  == IF Len(t1) < Len(t2) THEN Len(t1) ELSE Len(t2)
        Kind(e) == IF e.step = "state" THEN e ELSE Step(e.step, "")
        Agree(k) == \A j \in 1..k : t1[j] = t2[j]
    IN  /\ \A i \in 1..n : Agree(i - 1) => Kind(t1[i]) = Kind(t2[i])
        /\ (pc = "idle" /\ Agree(n)) =>
             /\ Len(t1) = Len(t2)
             /\ memo.outcome = OutcomeClass(result)

\* ------------------------------------------- main.ts, MCPLLMBridge, LLMClient
\* The program has one LLMClient, which holds one manager.  Here a call of the
\* manager is in flight from its invocation until it settles; what it does in
\* between is the subject of Spec.
managerVars ==
  << platform, config, svc, status, pc, attempts, elapsed, calls, probes,
     lastFetch, firstProbe, postStopProbe, stopIssued, gracefulFailed, waitOutcome,
     caught, result, prev, returned, svcAtCall, svcChanged, held, waitCfg,
     strayGone, spawned, trace, osPlatform, processPlatform, memo, draftVars >>

\* what the user types at the prompt of the command loop
Inputs == {"quit", "list-tools", "hello", "thanks"}

\* error classes a startService() rejects with
StartErrors == {"ProcessError", "ServiceError"}

\* LLMClient constructor: healthCheck { timeout: 30000, interval: 1000 }
LLMClientServiceConfig ==
  [timeout |-> 60, interval |-> 2, hasMaxAttempts |-> FALSE, maxAttempts |-> 0]

\* while (!isClosing): the loop goes round, or ends
LoopTop == IF isClosing THEN "done" ELSE "question"

\* LLMClient.invokeWithPrompt(p) up to its first await:
\*   await this.serviceManager.startService()
invokeWithPrompt_call(p) ==
  /\ invokePc' = "startService"
  /\ starts' = starts + 1
  /\ prompt' = p
  /\ requests' = 0
  /\ startResult' = "pending"
  /\ thrown' = ""
  /\ UNCHANGED messages

\* LLMClient.close() up to its await: await this.serviceManager.stopService()
close_call ==
  /\ closePc' = "stopService"
  /\ stops' = stops + 1
  /\ stopResult' = "pending"
  /\ closeResult' = "pending"

\* MCPLLMBridge.processMessage(message) hands the message to its LLMClient
bridge_processMessage_call(message) ==
  invokeWithPrompt_call(message)

\* MCPLLMBridge.close() closes its LLMClient
bridge_close_call ==
  close_call

\* shutdown(): if (isClosing) return; isClosing = true; await bridge.close()
shutdown ==
  IF isClosing
  THEN UNCHANGED << isClosing, closePc, stops, stopResult, closeResult, closes >>
  ELSE /\ isClosing' = TRUE
       /\ closes' = closes + 1
       /\ bridge_close_call

\* the question() of the loop resolves with what the user typed.  'quit':
\* await shutdown(); break.  'list-tools': listTools() has no await of its own
\* and the loop goes round with no event handled in between.  Any other
\* input: await bridge.processMessage(userInput)
main_question ==
  /\ ~exited
  /\ mainPc = "question"
  /\ \E input \in Inputs :
       CASE input = "quit" ->
              /\ shutdown
              /\ mainPc' = IF isClosing THEN "done" ELSE "shutdown"
              /\ UNCHANGED << invokePc, messages, prompt, requests, startResult,
                              thrown, starts >>
         [] input = "list-tools" ->
              /\ mainPc' = LoopTop
              /\ UNCHANGED << isClosing, closePc, stops, stopResult, closeResult, closes, invokePc, messages, prompt,
                              requests, startResult, thrown, starts >>
         [] OTHER ->
              /\ bridge_processMessage_call(input)
              /\ mainPc' = "processMessage"
              /\ UNCHANGED << isClosing, closePc, stops, stopResult, closeResult, closes >>
  /\ UNCHANGED << exited, managerVars >>

\* process.on('SIGINT', shutdown); process.on('SIGTERM', shutdown)
signal ==
  /\ ~exited
  /\ shutdown
  /\ UNCHANGED << mainPc, exited, invokePc, messages, prompt, requests, startResult,
                  thrown, starts, managerVars >>

\* an invokeWithPrompt() that goes on to send the request whatever way its
\* startService() settled
invokeWithPrompt_startService_SendsAnyway ==
  /\ ~exited
  /\ invokePc = "startService"
  /\ \E out \in {"resolved"} \cup StartErrors :
       /\ starts' = starts - 1
       /\ startResult' = out
       /\ messages' = << prompt >>
       /\ requests' = requests + 1
       /\ invokePc' = "fetch"
       /\ UNCHANGED << mainPc, thrown >>
  /\ UNCHANGED << isClosing, exited, closePc, prompt, stops, stopResult, closeResult,
                  closes, managerVars >>

\* the startService() of invokeWithPrompt settles.  Resolved: this.messages =
\* [], push of the user message, invoke([]) up to its fetch of /api/chat.
\* Rejected: the catch logs and rethrows, processMessage rejects, the catch of
\* the loop logs.
invokeWithPrompt_startService ==
  /\ ~exited
  /\ invokePc = "startService"
  /\ \E out \in {"resolved"} \cup StartErrors :
       /\ starts' = starts - 1
       /\ startResult' = out
       /\ IF out = "resolved"
          THEN /\ messages' = << prompt >>
               /\ requests' = requests + 1
               /\ invokePc' = "fetch"
               /\ UNCHANGED << mainPc, thrown >>
          ELSE /\ thrown' = out
               /\ invokePc' = "idle"
               /\ mainPc' = LoopTop
               /\ UNCHANGED << messages, requests >>
  /\ UNCHANGED << isClosing, exited, closePc, prompt, stops, stopResult, closeResult,
                  closes, managerVars >>

\* the fetch of invoke() settles: the assistant message is pushed, or invoke
\* throws
invoke_fetch ==
  /\ ~exited
  /\ invokePc = "fetch"
  /\ \E ok \in BOOLEAN :
       IF ok
       THEN messages' = Append(messages, "assistant") /\ UNCHANGED thrown
       ELSE thrown' = "Error" /\ UNCHANGED messages
  /\ invokePc' = "idle"
  /\ mainPc' = LoopTop
  /\ UNCHANGED << isClosing, exited, closePc, prompt, requests, startResult, starts,
                  stops, stopResult, closeResult, closes, managerVars >>

\* error classes a stopService() rejects with
StopErrors == {"ProcessError", "ServiceError"}

\* a close() that lets the rejection of stopService() through
close_stopService_Rethrows ==
  /\ ~exited
  /\ closePc = "stopService"
  /\ \E out \in {"resolved"} \cup StopErrors :
       /\ stopResult' = out
       /\ closeResult' = IF out = "resolved" THEN "resolved" ELSE "rejected"
  /\ stops' = stops - 1
  /\ closePc' = "idle"
  /\ exited' = TRUE
  /\ UNCHANGED << mainPc, isClosing, invokePc, messages, prompt, requests,
                  startResult, thrown, starts, closes, managerVars >>

\* the stopService() of close() settles: try { await stopService() } catch
\* (error) { logger.error(...) }, so close() resolves either way; bridge.close()
\* resolves and shutdown() goes on: rl.close(); process.exit(0)
close_stopService ==
  /\ ~exited
  /\ closePc = "stopService"
  /\ \E out \in {"resolved"} \cup StopErrors :
       /\ stopResult' = out
       /\ closeResult' = "resolved"
  /\ stops' = stops - 1
  /\ closePc' = "idle"
  /\ exited' = TRUE
  /\ UNCHANGED << mainPc, isClosing, invokePc, messages, prompt, requests,
                  startResult, thrown, starts, closes, managerVars >>

AppInit ==
  /\ platform \in Platforms
  /\ config = LLMClientServiceConfig
  /\ svc \in BOOLEAN
  /\ status = InitialStatus
  /\ pc = "idle"
  /\ attempts = 0
  /\ elapsed = 0
  /\ calls = NoCalls
  /\ probes = 0
  /\ lastFetch = "none"
  /\ firstProbe = "none"
  /\ postStopProbe = "none"
  /\ stopIssued = FALSE
  /\ gracefulFailed = FALSE
  /\ waitOutcome = "none"
  /\ caught = NoError
  /\ result = NoResult
  /\ prev = NoResult
  /\ returned = InitialStatus
  /\ svcAtCall = svc
  /\ svcChanged = FALSE
  /\ held = NoHeld
  /\ waitCfg = ManagerWaitConfig(config)
  /\ strayGone = FALSE
  /\ spawned = "none"
  /\ trace = << >>
  /\ osPlatform = "none"
  /\ processPlatform \in {"win32", "linux", "darwin"}
  /\ platform = create(processPlatform).manager
  /\ memo = NoMemo
  /\ AppStarted
  /\ DraftsNotRun

AppNext ==
  \/ main_question
  \/ signal
  \/ invokeWithPrompt_startService
  \/ invoke_fetch
  \/ close_stopService

AppSpec == AppInit /\ [][AppNext]_vars

\* C23: an invokeWithPrompt() call sends its chat request only once the
\* startService() it awaited has resolved; when that startService() rejects, no
\* request is sent, the message history stays as it was and the call rejects
\* with the error of startService().
C23_RequestOnlyAfterStart ==
  /\ [](/\ requests > 0 => startResult = "resolved"
        /\ invokePc = "fetch" => (startResult = "resolved" /\ requests = 1)
        /\ invokePc = "startService" => (startResult = "pending" /\ requests = 0)
        /\ startResult \in {"ProcessError", "ServiceError"} =>
             (requests = 0 /\ thrown = startResult /\ invokePc = "idle"))
  /\ [][(invokePc' = "startService" \/ startResult' \in {"ProcessError", "ServiceError"})
        => messages' = messages]_vars

\* the second prompt of a session: its startService() rejected, and the
\* history of the first prompt is still there
C23_Witness ==
  /\ startResult = "ProcessError"
  /\ thrown = "ProcessError"
  /\ prompt = "thanks"
  /\ messages = << "hello", "assistant" >>
  /\ requests = 0
  /\ mainPc = "question"

\* C24: no stopService() is invoked on the client's manager while a
\* startService() on it is in flight, and no startService() while a
\* stopService() is in flight.
C24_StartAndStopNeverOverlap ==
  ~(starts > 0 /\ stops > 0)

\* ------------------------------------------------------------- termination
\* startService() and stopService() called one after the other on a manager
\* configured with {timeout: 5000, interval: 1000, maxAttempts: 3}
LiveInit == Init /\ config.interval = 2

\* a probe, a process primitive or a sleep of the call in flight returns
CallStep ==
  \/ startService_checkHealth
  \/ startService_isProcessRunning
  \/ startService_stopProcess
  \/ startService_startProcess
  \/ waitForHealth_check
  \/ waitForHealth_sleep
  \/ waitForHealth_timeout
  \/ waitForHealth_exhausted
  \/ stopService_checkHealth
  \/ stopService_stopProcess
  \/ stopService_poll
  \/ stopService_pollSleep
  \/ stopService_forceStop

LiveNext ==
  \/ ServiceChanges
  \/ startService_call
  \/ stopService_call
  \/ CallStep

\* every probe, process primitive and sleep returns
LiveSpec == LiveInit /\ [][LiveNext]_vars /\ WF_vars(CallStep)

\* C31: when every probe and every process primitive returns, each
\* startService() and stopService() call resolves or rejects; the loop of the
\* health wait has made at most maxAttempts probes and the post-stop loop at
\* most 5 polls, however the service answers.
C31_CallsEnd ==
  /\ [](LET polls == Cardinality({i \in 1..Len(trace) : trace[i].step = "health poll"})
        IN  /\ result.op = "startService" =>
                 (polls <= WaitMaxAttempts(waitCfg) /\ attempts <= WaitMaxAttempts(waitCfg))
            /\ result.op = "stopService" =>
                 (polls <= StopPollLimit /\ attempts <= StopPollLimit))
  /\ (pc # "idle") ~> (pc = "idle")

\* a stopService() on Windows whose 5 polls all found the service healthy has
\* resolved
C31_Witness ==
  /\ Resolved("stopService")
  /\ platform = "windows"
  /\ Cardinality({i \in 1..Len(trace) : trace[i] = Step("health poll", "true")}) = 5

C35_SnapshotNotRunning ==
  (/\ pc = "idle"
   /\ result.op \in {"startService", "waitForHealth"}
   /\ caught.name = "HealthCheckError")
  => caught.serviceStatus = << [status EXCEPT !.running = FALSE, !.state = "stopped"] >>

\* C36: a waitForHealth() that returns without error does so on a probe that
\* was started before config.timeout had elapsed since the wait began.
C36_NoSuccessAfterBudget ==
  [][(pc = "wait_check" /\ waitOutcome' = "healthy") => elapsed < waitCfg.timeout]_vars

\* C37: a waitForHealth() raises TimeoutError or HealthCheckError only after a
\* probe of its loop has been made and has failed, and a wait begun with the
\* service healthy (and staying so) returns without error.
C37_FailsOnlyAfterFailedProbe ==
  (pc = "idle" /\ result.op \in {"health.waitForHealth", "waitForHealth"}) =>
    /\ caught.name \in {"TimeoutError", "HealthCheckError"} =>
         \E i \in 1..Len(trace) : trace[i] = Step("health poll", "false")
    /\ (svcAtCall /\ ~svcChanged) => result.outcome = "resolved"

\* C38: when the stop of the stray process fails during startService(), the
\* call rejects with a ProcessError whose operation is 'stop'; the command has
\* not been spawned and no probe of the health wait has been made (the initial
\* health check is the only probe of the call).
C38_FailedStopEndsStart ==
  (/\ result.op = "startService"
   /\ \E i \in 1..Len(trace) : trace[i] = Step("graceful stop", "fail"))
  => /\ pc = "idle"
     /\ result.outcome = "rejected"
     /\ result.err.name = "ProcessError"
     /\ result.err.operation = "stop"
     /\ calls.startProcess = 0
     /\ spawned = "none"
     /\ probes = 1
     /\ waitOutcome = "none"
     /\ \A i \in 1..Len(trace) : trace[i].step \notin {"spawn", "health poll", "snapshot"}

\* a startService() on Windows found ollama.exe running, and taskkill and
\* taskkill /F were both refused although the process was still there
C38_Witness ==
  /\ Rejected("startService")
  /\ platform = "windows"
  /\ stopIssued
  /\ ~strayGone
  /\ calls.forceStopProcess = 1
  /\ result.err.operation = "stop"

\* C33: LLMClient.close() never rejects: whatever error its stopService()
\* rejects with, close() resolves, and the shutdown that awaits it goes on to
\* its end.
C33_CloseNeverRejects ==
  /\ closeResult \in {"none", "pending", "resolved"}
  /\ closePc = "stopService" => (closeResult = "pending" /\ stopResult = "pending")
  /\ stopResult \in {"resolved", "ProcessError", "ServiceError"} =>
       (closeResult = "resolved" /\ closePc = "idle" /\ exited)

\* stopService() rejected with a ProcessError and close() resolved; shutdown()
\* has reached process.exit
C33_Witness ==
  /\ stopResult = "ProcessError"
  /\ closeResult = "resolved"
  /\ exited

\* C39: over any interleaving of SIGINT, SIGTERM and 'quit', shutdown() calls
\* bridge.close() at most once, and once shutdown has begun (isClosing) the
\* command loop hands no further prompt to bridge.processMessage().
C39_OneShutdownNoPromptAfter ==
  /\ [](closes <= 1)
  /\ [][isClosing => ~(mainPc # "processMessage" /\ mainPc' = "processMessage")]_vars

\* ------------------------------------ the two drafts of the health wait
\* waitForHealth() of health.ts counts attempts; waitForHealth() of the
\* earlier BaseServiceManager loops on the clock.  Both are run here on the
\* same config (without maxAttempts) and the same probe answers, with probes
\* that take no time, so that the clock moves only in the sleeps.
MaxDraftTimeout == 4

\* timeout and interval in units of 500 ms
DraftConfigs ==
  { [timeout |-> t, interval |-> i, hasMaxAttempts |-> FALSE, maxAttempts |-> 0] :
      t \in 1..MaxDraftTimeout, i \in 1..MaxDraftTimeout }

\* one answer for each probe a loop can make within the largest timeout
ProbeAnswers == [1..MaxDraftTimeout -> BOOLEAN]

\* let start = Date.now(), let attempts = 0: the run is at its first loop test
RunEntry == [pc |-> "test", attempts |-> 0, elapsed |-> 0, probes |-> 0, outcome |-> "none"]

\* checker.check() / this.checkHealth(): the next answer of the sequence
Answer(run) == probeAnswers[run.probes + 1]

\* await currentStatus() / await this.getStatus(), then the throw
FailWith(run, error) ==
  [run EXCEPT !.pc = "done", !.probes = @ + 1, !.outcome = error]

\* a loop that makes one more turn, at the very end of the timeout
LoopGoesOn_Inclusive(run, timeout) == run.elapsed <= timeout

\* while (Date.now() - start < timeout)
LoopGoesOn(run, timeout) == run.elapsed < timeout

DraftInit ==
  /\ platform = "unix"
  /\ config = CHOOSE c \in Configs : TRUE
  /\ svc = FALSE
  /\ status = InitialStatus
  /\ pc = "idle"
  /\ attempts = 0
  /\ elapsed = 0
  /\ calls = NoCalls
  /\ probes = 0
  /\ lastFetch = "none"
  /\ firstProbe = "none"
  /\ postStopProbe = "none"
  /\ stopIssued = FALSE
  /\ gracefulFailed = FALSE
  /\ waitOutcome = "none"
  /\ caught = NoError
  /\ result = NoResult
  /\ prev = NoResult
  /\ returned = InitialStatus
  /\ svcAtCall = svc
  /\ svcChanged = FALSE
  /\ held = NoHeld
  /\ waitCfg = ManagerWaitConfig(config)
  /\ strayGone = FALSE
  /\ spawned = "none"
  /\ trace = << >>
  /\ osPlatform = "none"
  /\ processPlatform = "linux"
  /\ memo = NoMemo
  /\ AppStarted
  /\ draftCfg \in DraftConfigs
  /\ probeAnswers \in ProbeAnswers
  /\ counting = RunEntry
  /\ looping = RunEntry

\* a step of a draft touches its own run only
DraftFrame ==
  UNCHANGED << platform, config, svc, status, pc, attempts, elapsed, calls, probes,
               lastFetch, firstProbe, postStopProbe, stopIssued, gracefulFailed,
               waitOutcome, caught, result, prev, returned, svcAtCall, svcChanged,
               held, waitCfg, strayGone, spawned, trace, osPlatform,
               processPlatform, memo, appVars, draftCfg, probeAnswers >>

\* health.ts: while (attempts < maxAttempts), and the failure after the loop
counting_test ==
  /\ counting.pc = "test"
  /\ counting' = IF counting.attempts < WaitMaxAttempts(draftCfg)
                 THEN [counting EXCEPT !.pc = "check"]
                 ELSE FailWith(counting, "HealthCheckError")
  /\ UNCHANGED looping
  /\ DraftFrame

\* health.ts: the probe, the test of the clock after a failed probe, attempts++
counting_check ==
  /\ counting.pc = "check"
  /\ LET probed == [counting EXCEPT !.probes = @ + 1]
     IN counting' =
          IF Answer(counting)
          THEN [probed EXCEPT !.pc = "done", !.outcome = "healthy"]
          ELSE IF probed.elapsed >= draftCfg.timeout
               THEN FailWith(probed, "TimeoutError")
               ELSE [probed EXCEPT !.pc = "sleep", !.attempts = @ + 1]
  /\ UNCHANGED looping
  /\ DraftFrame

\* health.ts: await new Promise(resolve => setTimeout(resolve, config.interval))
counting_sleep ==
  /\ counting.pc = "sleep"
  /\ counting' = [counting EXCEPT !.pc = "test", !.elapsed = @ + draftCfg.interval]
  /\ UNCHANGED looping
  /\ DraftFrame

\* earlier draft: while (Date.now() - start < timeout), and the throw after it
looping_test ==
  /\ looping.pc = "test"
  /\ looping' = IF LoopGoesOn(looping, draftCfg.timeout)
                THEN [looping EXCEPT !.pc = "check"]
                ELSE FailWith(looping, "ServiceTimeoutError")
  /\ UNCHANGED counting
  /\ DraftFrame

\* earlier draft: if (await this.checkHealth()) return true
looping_check ==
  /\ looping.pc = "check"
  /\ LET probed == [looping EXCEPT !.probes = @ + 1]
     IN looping' =
          IF Answer(looping)
          THEN [probed EXCEPT !.pc = "done", !.outcome = "healthy"]
          ELSE [probed EXCEPT !.pc = "sleep"]
  /\ UNCHANGED counting
  /\ DraftFrame

\* earlier draft: await new Promise(resolve => setTimeout(resolve, interval))
looping_sleep ==
  /\ looping.pc = "sleep"
  /\ looping' = [looping EXCEPT !.pc = "test", !.elapsed = @ + draftCfg.interval]
  /\ UNCHANGED counting
  /\ DraftFrame

DraftNext ==
  \/ counting_test
  \/ counting_check
  \/ counting_sleep
  \/ looping_test
  \/ looping_check
  \/ looping_sleep

DraftSpec == DraftInit /\ [][DraftNext]_vars

BothDraftsDone == counting.pc = "done" /\ looping.pc = "done"

DraftsAgree ==
  /\ counting.probes = looping.probes
  /\ (counting.outcome = "healthy") = (looping.outcome = "healthy")

\* C32: as stated, for every timeout and interval: once both drafts have
\* ended on the same probe answers they have issued the same number of probes
\* and either both succeeded or both failed
C32_DraftsAgreeAlways == BothDraftsDone => DraftsAgree

\* C32: when the timeout is a whole multiple of the interval, both drafts
\* issue the same number of probes on every sequence of probe answers and
\* both succeed or both fail on it
C32_DraftsAgreeOnMultiples ==
  (BothDraftsDone /\ draftCfg.timeout % draftCfg.interval = 0) => DraftsAgree

\* both drafts have failed a timeout of two intervals after two probes each and
\* the probe of the status they throw with
C32_Witness ==
  /\ BothDraftsDone
  /\ draftCfg.timeout = 4
  /\ draftCfg.interval = 2
  /\ counting.outcome = "HealthCheckError"
  /\ looping.outcome = "ServiceTimeoutError"
  /\ counting.probes = 3
  /\ looping.probes = 3

====
